---- MODULE Spec2Model ----
(***************************************************************************)
(* Model of the movie search page (src/pages/Search/index.tsx): the        *)
(* pagination state of MovieSearchPage, its three triggers                 *)
(* (handleSearchSubmit, handleRefresh, handleLoadMore), the shared         *)
(* getData fetch routine and the video store it fills.                     *)
(*                                                                         *)
(* Granularity.  JavaScript runs one task at a time, so the synchronous    *)
(* part of a handler (up to the await of ui.getVideoSearchResult) is one   *)
(* step, and the continuation that runs when the promise settles (the rest *)
(* of the try block, catch, finally, and for handleLoadMore the trailing   *)
(* setIsLoadingMore(false)) is one step.  Handlers read the state of the   *)
(* latest render; React commits the render of a task's updates before the  *)
(* next event is dispatched, so a handler sees the current state.          *)
(*                                                                         *)
(* Triggers.  onSubmitEditing and onChangeText come from the TextInput,    *)
(* which is always rendered; onRefresh and onEndReached come from the      *)
(* FlatList, which is replaced by the skeleton while the list is empty and *)
(* loading is true (lines 217-247).                                        *)
(*                                                                         *)
(* Environment.  ui.getVideoSearchResult and the video store of            *)
(* useAppStore are collaborators outside this file: the service answers    *)
(* with a rejection, a value without list, or a list with                  *)
(* pagination {currentPage: the page asked for, totalPages >= 1}; the      *)
(* store is a map with an unconditional upsert.                            *)
(***************************************************************************)
EXTENDS Integers, Sequences, FiniteSets, Bags, TLC

(* ---------------------------- bounds ----------------------------------- *)
MaxTotalPages == 3      \* largest totalPages a response reports
MaxListLen    == 1      \* longest result list of a response
MaxInflight   == 2      \* fetches awaiting their response at one time

Keywords == {"a", "b"}  \* non-empty search words the user types
Keys     == {"k1", "k2"} \* movie hrefs

VARIABLES
  isRefreshing,   \* useState, line 50
  isLoadingMore,  \* useState, line 51
  dataObj,        \* useImmer, line 52: page number -> hrefs of that page
  searchword,     \* useState, line 53
  loading,        \* useState, line 54
  pagination,     \* useState, lines 55-59
  videoData,      \* the app store behind updateVideoData / getVideoData
  inflight,       \* bag of calls of ui.getVideoSearchResult not yet settled
  last,           \* history: the step taken last (trigger or settlement)
  hist            \* history: the word the stored page 1 was fetched for

vars == <<isRefreshing, isLoadingMore, dataObj, searchword, loading,
          pagination, videoData, inflight, last, hist>>

(* ------------------------- external service ---------------------------- *)
\* The records a search for word w returns.  The title stands for the rest
\* of the payload; it names the search the record came with, which tells two
\* records of one href apart.
Movies(w) == {[href |-> k, title |-> w] : k \in Keys}

Lists(w) == UNION {[1..n -> Movies(w)] : n \in 0..MaxListLen}

\* What `await ui.getVideoSearchResult(searchword, page)` can produce: a
\* rejection, a value without `list`, or a list with pagination metadata
\* whose currentPage is the page asked for.
getVideoSearchResult(w, page) ==
  {[kind |-> "error",  list |-> <<>>, currentPage |-> page, totalPages |-> 1],
   [kind |-> "nolist", list |-> <<>>, currentPage |-> page, totalPages |-> 1]}
  \cup
  {[kind |-> "ok", list |-> l, currentPage |-> page, totalPages |-> t] :
      l \in Lists(w), t \in 1..MaxTotalPages}

(* ----------------------------- helpers --------------------------------- *)
\* data.list.map(movie => movie.href)
hrefs(l) == [i \in 1..Len(l) |-> l[i].href]

\* updateVideoData(href, movie): unconditional upsert
updateVideoData(store, href, movie) ==
  [k \in (DOMAIN store) \cup {href} |-> IF k = href THEN movie ELSE store[k]]

\* variant: the records of the response are not saved
RECURSIVE forEachUpdate_skipped(_, _)
forEachUpdate_skipped(store, l) == store

\* variant: a key the store already holds keeps its record
RECURSIVE forEachUpdate_keepOld(_, _)
forEachUpdate_keepOld(store, l) ==
  IF l = <<>> THEN store
  ELSE forEachUpdate_keepOld(
         IF Head(l).href \in DOMAIN store THEN store
         ELSE updateVideoData(store, Head(l).href, Head(l)), Tail(l))

\* data.list.forEach(movie => updateVideoData(movie.href, movie))
RECURSIVE forEachUpdate(_, _)
forEachUpdate(store, l) ==
  IF l = <<>> THEN store
  ELSE forEachUpdate(updateVideoData(store, Head(l).href, Head(l)), Tail(l))

\* what getVideoData gives for a key the store does not hold (undefined)
Absent == [href |-> "undefined", title |-> "undefined"]

\* getVideoData(href)
getVideoData(href) ==
  IF href \in DOMAIN videoData THEN videoData[href] ELSE Absent

\* variant: page 1 is stored like any other page, older pages are kept
setDataObj_keepPages(d, page, l) ==
  [p \in (DOMAIN d) \cup {page} |-> IF p = page THEN hrefs(l) ELSE d[p]]

\* the updater passed to setDataObj
setDataObj(d, page, l) ==
  IF page = 1 THEN (1 :> hrefs(l))
  ELSE [p \in (DOMAIN d) \cup {page} |-> IF p = page THEN hrefs(l) ELSE d[p]]

\* the updater passed to setPagination
setPagination(r) ==
  [currentPage |-> r.currentPage,
   totalPages  |-> r.totalPages,
   hasMore     |-> r.currentPage < r.totalPages]

MinOf(S) == CHOOSE m \in S : \A x \in S : m <= x

\* variant: the pages are enumerated from the highest number down
RECURSIVE forIn_descending(_, _)
forIn_descending(d, ks) ==
  IF ks = {} THEN <<>>
  ELSE LET k == CHOOSE m \in ks : \A x \in ks : m >= x
       IN d[k] \o forIn_descending(d, ks \ {k})

\* `for (const key in dataObj)`: integer keys are enumerated ascending
RECURSIVE forIn(_, _)
forIn(d, ks) ==
  IF ks = {} THEN <<>>
  ELSE LET k == MinOf(ks) IN d[k] \o forIn(d, ks \ {k})

listOf(d) == forIn(d, DOMAIN d)

\* the memoised `list`
list == listOf(dataObj)

\* flatListRef.current: the FlatList is rendered unless the skeleton is
flatListRef == ~(Len(list) = 0 /\ loading)

(* ------------------------------ Init ----------------------------------- *)
\* `last` is a history variable.  op: the handler that ran, or "settle";
\* issued: the handler called ui.getVideoSearchResult; page: the page asked
\* for; and for a settlement: src, the handler whose fetch settled; outcome;
\* list, the list of the response; before, the pages stored before a page-1
\* response was applied;
\* logged, console.error was called (line 105); cursor, the pagination
\* state the settled handleLoadMore was called from; reset, the response of
\* a handleSearchSubmit made after that handleLoadMore was applied before it.
NoCursor == [currentPage |-> 0, totalPages |-> 0, hasMore |-> FALSE]

NoStep(op) ==
  [op |-> op, issued |-> FALSE, page |-> 0, src |-> "none",
   outcome |-> "none", list |-> <<>>, before |-> {}, logged |-> FALSE,
   cursor |-> NoCursor, reset |-> FALSE]

Init ==
  /\ isRefreshing = FALSE
  /\ isLoadingMore = FALSE
  /\ dataObj = <<>>
  /\ searchword = ""
  /\ loading = FALSE
  /\ pagination = [currentPage |-> 1, totalPages |-> 1, hasMore |-> TRUE]
  /\ videoData = <<>>
  /\ inflight = EmptyBag
  /\ last = NoStep("init")
  /\ hist = [pageOneWord |-> ""]

(* ----------------------------- getData --------------------------------- *)
\* variant: the word is not tested
emptyWord_noTest(w) == FALSE

\* line 71
emptyWord(w) == w = ""

LoadMoreInflight == {f \in BagToSet(inflight) : f.op = "loadMore"}

\* a pending call: the arguments of getData and the handler that made it.
\* History: cursor, for handleLoadMore, the pagination state it was called
\* from; after, for handleSearchSubmit, whether a handleLoadMore was waiting
\* when it was called; reset, for handleLoadMore, whether the response of a
\* handleSearchSubmit called after it has been applied.
Fetch(w, page, op) ==
  [kw |-> w, page |-> page, op |-> op,
   cursor |-> IF op = "loadMore" THEN pagination ELSE NoCursor,
   after |-> (op = "submit" /\ LoadMoreInflight # {}),
   reset |-> FALSE]

\* lines 70-80: the synchronous part of getData, up to the await
getData(w, page, op) ==
  IF emptyWord(w)
  THEN /\ UNCHANGED <<isRefreshing, loading, inflight>>
       /\ last' = NoStep(op)
  ELSE /\ BagCardinality(inflight) < MaxInflight
       /\ isRefreshing' = IF page <= 1 /\ flatListRef THEN TRUE ELSE isRefreshing
       /\ loading' = TRUE
       /\ inflight' = inflight (+) SetToBag({Fetch(w, page, op)})
       /\ last' = [NoStep(op) EXCEPT !.issued = TRUE, !.page = page]

\* variant: every value the promise resolves with is taken to have a list
hasList_anyValue(r) == r.kind # "error"

\* line 81: if (data?.list)
hasList(r) == r.kind = "ok"

\* variant: a failed fetch empties the pages
dataObjAfter_clearOnError(f, r) ==
  IF r.kind = "error" THEN <<>>
  ELSE IF r.kind = "ok" THEN setDataObj(dataObj, f.page, r.list) ELSE dataObj

\* variant: a failed fetch puts the cursor back to its initial value
paginationAfter_resetOnError(f, r) ==
  IF r.kind = "error"
  THEN [currentPage |-> 1, totalPages |-> 1, hasMore |-> TRUE]
  ELSE IF r.kind = "ok" THEN setPagination(r) ELSE pagination

\* lines 81-103, state after the try block
dataObjAfter(f, r) ==
  IF hasList(r) THEN setDataObj(dataObj, f.page, r.list) ELSE dataObj

paginationAfter(f, r) ==
  IF hasList(r) THEN setPagination(r) ELSE pagination

videoDataAfter(f, r) ==
  IF hasList(r) THEN forEachUpdate(videoData, r.list) ELSE videoData

\* variant: line 140 is missing
isLoadingMoreAfter_notCleared(f) == isLoadingMore

\* line 140, which runs in the task that resumes handleLoadMore after getData
isLoadingMoreAfter(f) == IF f.op = "loadMore" THEN FALSE ELSE isLoadingMore

\* history kept in the pending calls when the call f settles with r
Remark(g, f, r) ==
  IF f.op = "loadMore" THEN [g EXCEPT !.after = FALSE]
  ELSE IF hasList(r) /\ f.after /\ g.op = "loadMore"
       THEN [g EXCEPT !.reset = TRUE]
       ELSE g

RECURSIVE CountOf(_, _)
CountOf(B, S) ==
  IF S = {} THEN 0
  ELSE LET e == CHOOSE x \in S : TRUE IN B[e] + CountOf(B, S \ {e})

Remarked(B, f, r) ==
  LET S == {Remark(g, f, r) : g \in BagToSet(B)}
  IN [x \in S |-> CountOf(B, {g \in BagToSet(B) : Remark(g, f, r) = x})]

\* lines 80-109 and, for a fetch of handleLoadMore, line 140
getDataSettle(f, r) ==
  /\ inflight' = Remarked(inflight (-) SetToBag({f}), f, r)
  /\ videoData' = videoDataAfter(f, r)
  /\ dataObj' = dataObjAfter(f, r)
  /\ pagination' = paginationAfter(f, r)
  /\ loading' = FALSE
  /\ isRefreshing' = FALSE
  /\ isLoadingMore' = isLoadingMoreAfter(f)
  /\ UNCHANGED searchword
  /\ last' = [op |-> "settle", issued |-> FALSE, page |-> f.page,
              src |-> f.op, outcome |-> r.kind, list |-> r.list,
              before |-> IF hasList(r) /\ f.page = 1 THEN DOMAIN dataObj ELSE {},
              logged |-> (r.kind = "error"),
              cursor |-> IF r.kind = "error" THEN f.cursor ELSE NoCursor,
              reset |-> (hasList(r) /\ f.reset)]
  /\ hist' = [pageOneWord |->
                IF hasList(r) /\ f.page = 1 THEN f.kw ELSE hist.pageOneWord]

(* ----------------------------- actions --------------------------------- *)
\* line 211: onChangeText={setSearchword}
onChangeText(w) ==
  /\ w # searchword
  /\ searchword' = w
  /\ last' = NoStep("type")
  /\ UNCHANGED <<isRefreshing, isLoadingMore, dataObj, loading, pagination,
                 videoData, inflight, hist>>

\* lines 146-148
handleSearchSubmit ==
  /\ getData(searchword, 1, "submit")
  /\ UNCHANGED <<isLoadingMore, dataObj, searchword, pagination, videoData,
                 hist>>

\* lines 129-131; onRefresh of the FlatList's RefreshControl
handleRefresh ==
  /\ flatListRef
  /\ getData(searchword, 1, "refresh")
  /\ UNCHANGED <<isLoadingMore, dataObj, searchword, pagination, videoData,
                 hist>>

\* variant: only hasMore is tested
loadMoreBlocked_noLoadingTest == ~pagination.hasMore

\* variant: only isLoadingMore is tested
loadMoreBlocked_noHasMoreTest == isLoadingMore

\* line 137
loadMoreBlocked == isLoadingMore \/ ~pagination.hasMore

\* line 139
nextPage == pagination.currentPage + 1

\* lines 136-141; onEndReached of the FlatList
handleLoadMore ==
  /\ flatListRef
  /\ IF loadMoreBlocked
     THEN /\ last' = NoStep("loadMore")
          /\ UNCHANGED <<isRefreshing, isLoadingMore, loading, inflight>>
     ELSE /\ getData(searchword, nextPage, "loadMore")
          \* with an empty word getData returns at once and line 140 runs
          \* in the same task
          /\ isLoadingMore' = ~emptyWord(searchword)
  /\ UNCHANGED <<dataObj, searchword, pagination, videoData, hist>>

\* the promise of one pending call settles
Settle ==
  \E f \in BagToSet(inflight) :
    \E r \in getVideoSearchResult(f.kw, f.page) : getDataSettle(f, r)

Next ==
  \/ \E w \in Keywords \cup {""} : onChangeText(w)
  \/ handleSearchSubmit
  \/ handleRefresh
  \/ handleLoadMore
  \/ Settle

Spec == Init /\ [][Next]_vars

\* the promise of the pending call of handleLoadMore settles
SettleLoadMore ==
  \E f \in LoadMoreInflight :
    \E r \in getVideoSearchResult(f.kw, f.page) : getDataSettle(f, r)

\* The same page used with one search word only (the flags do not depend on
\* the words), where every call of the service settles: a pending call does
\* not wait for ever, and in particular the one of handleLoadMore does not.
OneWord == {"a"}

NextOneWord ==
  \/ \E w \in OneWord \cup {""} : onChangeText(w)
  \/ handleSearchSubmit
  \/ handleRefresh
  \/ handleLoadMore
  \/ Settle

FairSpec ==
  Init /\ [][NextOneWord]_vars /\ WF_vars(Settle) /\ WF_vars(SettleLoadMore)

(* --------------------------- type invariant ---------------------------- *)
TypeOK ==
  /\ isRefreshing \in BOOLEAN /\ isLoadingMore \in BOOLEAN /\ loading \in BOOLEAN
  /\ searchword \in Keywords \cup {""}
  /\ DOMAIN dataObj \subseteq 1..(MaxTotalPages + 1)
  /\ \A p \in DOMAIN dataObj : \A i \in 1..Len(dataObj[p]) : dataObj[p][i] \in Keys
  /\ pagination.currentPage \in 1..(MaxTotalPages + 1)
  /\ pagination.totalPages \in 1..MaxTotalPages
  /\ DOMAIN videoData \subseteq Keys
  /\ BagCardinality(inflight) <= MaxInflight
  /\ hist.pageOneWord \in Keywords \cup {""}

(* ------------------------------ claims -------------------------------- *)
\* C1: a handleLoadMore that runs while the fetch of an earlier one has not
\* settled calls no fetch and leaves the pending calls alone; one that does
\* fetch adds exactly one call, for (searchword, currentPage + 1).
C1_SecondLoadMoreIssuesNothing ==
  [][(last'.op = "loadMore") =>
       /\ (LoadMoreInflight # {}) => (~last'.issued /\ inflight' = inflight)
       /\ last'.issued =>
            /\ last'.page = pagination.currentPage + 1
            /\ inflight' = inflight (+)
                 SetToBag({[kw |-> searchword,
                            page |-> pagination.currentPage + 1,
                            op |-> "loadMore", cursor |-> pagination,
                            after |-> FALSE, reset |-> FALSE]})
     ]_vars

\* the second trigger ran while the first fetch is pending, and only the
\* isLoadingMore test stopped it
C1_Witness ==
  /\ last.op = "loadMore" /\ ~last.issued
  /\ isLoadingMore /\ pagination.hasMore /\ searchword # ""
  /\ BagCardinality(inflight) = 1 /\ LoadMoreInflight # {}

RECURSIVE SumLen(_, _)
SumLen(d, S) ==
  IF S = {} THEN 0
  ELSE LET q == CHOOSE x \in S : TRUE IN Len(d[q]) + SumLen(d, S \ {q})

PagesBelow(p) == {q \in DOMAIN dataObj : q < p}

C3_ResetOnPageOne ==
  (last.op = "settle" /\ last.outcome = "ok" /\ last.page = 1) =>
     /\ DOMAIN dataObj = {1}
     /\ Len(list) = Len(last.list)
     /\ \A i \in 1..Len(last.list) : list[i] = last.list[i].href

\* a page-1 response was applied while a page 2 was stored
C3_Witness ==
  /\ last.op = "settle" /\ last.outcome = "ok" /\ last.page = 1
  /\ 2 \in last.before
  /\ Len(last.list) > 0

\* C4: every key of the visible list has a record in the video store, and
\* that record is the one of this key.
C4_NoDanglingKey ==
  \A i \in 1..Len(list) :
     /\ getVideoData(list[i]) # Absent
     /\ getVideoData(list[i]).href = list[i]

\* a response was applied while another fetch was still pending
C4_Witness ==
  /\ last.op = "settle" /\ last.outcome = "ok"
  /\ Len(list) > 0
  /\ inflight # EmptyBag

\* C5: while hasMore is false, handleLoadMore calls no fetch and changes
\* neither the pages, the cursor, the flags, the store nor the pending calls.
C5_NoLoadMoreWithoutMore ==
  [][(last'.op = "loadMore" /\ ~pagination.hasMore) =>
       /\ ~last'.issued
       /\ UNCHANGED <<dataObj, pagination, isRefreshing, isLoadingMore,
                      loading, videoData, inflight, searchword>>
     ]_vars

\* handleLoadMore ran at {currentPage: 2, totalPages: 2} with a search word
\* and no load-more pending
C5_Witness ==
  /\ last.op = "loadMore" /\ ~last.issued
  /\ pagination = [currentPage |-> 2, totalPages |-> 2, hasMore |-> FALSE]
  /\ ~isLoadingMore /\ searchword # ""

\* C6 (as claimed): in every state hasMore = (currentPage < totalPages),
\* currentPage >= 1 and totalPages >= 1.
C6_HasMoreDerived ==
  /\ pagination.hasMore = (pagination.currentPage < pagination.totalPages)
  /\ pagination.currentPage >= 1
  /\ pagination.totalPages >= 1

FailedLoadMore(l) ==
  l.op = "settle" /\ l.outcome = "error" /\ l.src = "loadMore"

\* the failed call was made where the response before it had reported more
\* pages (not from the initial cursor)
MorePagesAtCall(l) == l.cursor.currentPage < l.cursor.totalPages

\* C7 (as claimed): when the fetch of a handleLoadMore fails, pages, visible
\* list and cursor are unchanged, isLoadingMore and loading are false, and
\* the next handleLoadMore fetches the page the failed one asked for.  Stated
\* for the calls made after a response reported more pages, which is enough
\* to refute it.
C7_RetrySamePage ==
  [][(FailedLoadMore(last') /\ MorePagesAtCall(last')) =>
       /\ UNCHANGED <<dataObj, pagination>>
       /\ list' = list
       /\ ~isLoadingMore' /\ ~loading'
       /\ ~loadMoreBlocked' /\ nextPage' = last'.page
     ]_vars

\* C7 (amended): when the fetch of a handleLoadMore fails, the failure
\* changes neither pages, visible list nor cursor, isLoadingMore and loading
\* are false, and the next handleLoadMore fetches currentPage + 1 of that
\* cursor: the page the failed one asked for whenever the cursor still is
\* the one the failed call was made from.
C7_FailureKeepsState ==
  [][FailedLoadMore(last') =>
       /\ UNCHANGED <<dataObj, pagination>>
       /\ list' = list
       /\ ~isLoadingMore' /\ ~loading'
       /\ (pagination = last'.cursor) =>
             (~loadMoreBlocked' /\ nextPage' = last'.page)
     ]_vars

\* a load-more failed with results on screen and the cursor untouched since
\* the call
C7_Witness ==
  /\ FailedLoadMore(last)
  /\ pagination = last.cursor
  /\ Len(list) > 0 /\ searchword # ""
  /\ nextPage = last.page

C9_SoftEmpty ==
  [][(last'.op = "settle" /\ last'.outcome = "nolist") =>
       /\ UNCHANGED <<dataObj, pagination, videoData>>
       /\ list' = list
       /\ ~last'.logged
       /\ ~loading'
     ]_vars

\* a value without list arrived with results on screen
C9_Witness ==
  /\ last.op = "settle" /\ last.outcome = "nolist"
  /\ Len(list) > 0
  /\ ~loading

\* C10: with an empty search word, handleSearchSubmit and handleRefresh call
\* no fetch and change neither pages, cursor, store, flags nor pending calls.
C10_EmptyWordNoOp ==
  [][(last'.op \in {"submit", "refresh"} /\ searchword = "") =>
       /\ ~last'.issued
       /\ UNCHANGED <<dataObj, pagination, videoData, loading, isRefreshing,
                      isLoadingMore, inflight, searchword>>
     ]_vars

\* the word was cleared after a search and a refresh was pulled
C10_Witness ==
  /\ last.op = "refresh" /\ ~last.issued
  /\ searchword = ""
  /\ Len(list) > 0

\* C11 (as claimed): currentPage changes in two ways only: the applied
\* response of a handleLoadMore raises it by exactly 1, the applied response
\* of a handleSearchSubmit or handleRefresh sets it to 1; no other step
\* changes it.
C11_CursorStepping ==
  [][(pagination'.currentPage # pagination.currentPage) =>
       /\ last'.op = "settle" /\ last'.outcome = "ok"
       /\ \/ /\ last'.src = "loadMore"
             /\ pagination'.currentPage = pagination.currentPage + 1
          \/ /\ last'.src \in {"submit", "refresh"}
             /\ pagination'.currentPage = 1
     ]_vars

\* C12 (as claimed): once the response of a handleSearchSubmit has been
\* applied, the response of a handleLoadMore that was called before that
\* submit and was still pending changes neither the pages nor the cursor.
C12_NoStaleMerge ==
  [][(last'.op = "settle" /\ last'.src = "loadMore" /\ last'.reset) =>
       UNCHANGED <<dataObj, pagination>>
     ]_vars

\* C13 (as claimed): loading is true in every state in which a call of the
\* service is pending.
C13_LoadingWhileInflight == (inflight # EmptyBag) => loading

AnyFlag == loading \/ isRefreshing \/ isLoadingMore

\* C14: when every pending call settles, each state in which a flag is set
\* is followed by a state in which loading, isRefreshing and isLoadingMore
\* are all false; isLoadingMore does not stay true for ever.
C14_FlagsClear == AnyFlag ~> ~AnyFlag

\* the fetch of a handleLoadMore failed and no flag is left set
C14_Witness ==
  /\ last.op = "settle" /\ last.src = "loadMore" /\ last.outcome = "error"
  /\ ~AnyFlag
  /\ ~loadMoreBlocked

\* C15 (as claimed): whenever pages are stored, the stored page numbers are
\* exactly 1..currentPage.
C15_NoSkippedPages ==
  (DOMAIN dataObj # {}) => (DOMAIN dataObj = 1..pagination.currentPage)

\* C16 (as claimed): all stored pages were fetched for one word.  Stated
\* against the word of the stored page 1: a handleLoadMore that fetches does
\* so for that word, and the records of a later page stored next to page 1
\* come from a search for that word.
C16_SingleKeyword ==
  [][/\ (last'.op = "loadMore" /\ last'.issued /\ 1 \in DOMAIN dataObj) =>
          searchword = hist.pageOneWord
     /\ (last'.op = "settle" /\ last'.outcome = "ok" /\ last'.page # 1
           /\ 1 \in DOMAIN dataObj) =>
          \A i \in 1..Len(last'.list) :
             last'.list[i].title = hist.pageOneWord
    ]_vars

\* C17 (as claimed): the settlement of a handleLoadMore fetch leaves
\* isRefreshing as it was, and the settlement of a handleSearchSubmit or
\* handleRefresh fetch leaves isLoadingMore as it was.
C17_IndependentFlags ==
  [][(last'.op = "settle") =>
       /\ (last'.src = "loadMore") => (isRefreshing' = isRefreshing)
       /\ (last'.src \in {"submit", "refresh"}) =>
             (isLoadingMore' = isLoadingMore)
     ]_vars

\* C18: no step removes a key from the video store; an applied response
\* leaves every one of its records stored under its href, whatever was
\* stored there before, and leaves the other keys alone; every other step
\* leaves the store as it was.
C18_GrowOnlyLastWrite ==
  [][/\ DOMAIN videoData \subseteq DOMAIN videoData'
     /\ IF last'.op = "settle" /\ last'.outcome = "ok"
        THEN /\ \A i \in 1..Len(last'.list) :
                   /\ last'.list[i].href \in DOMAIN videoData'
                   /\ videoData'[last'.list[i].href] = last'.list[i]
             /\ \A k \in DOMAIN videoData :
                   (\A i \in 1..Len(last'.list) : last'.list[i].href # k) =>
                      videoData'[k] = videoData[k]
        ELSE videoData' = videoData
    ]_vars

\* page 1 of a search for one word shows a key whose record has since been
\* replaced by the record a later page brought for another word
C18_Witness ==
  /\ last.op = "settle" /\ last.outcome = "ok" /\ last.page = 2
  /\ Len(last.list) > 0 /\ 1 \in DOMAIN dataObj /\ Len(dataObj[1]) > 0
  /\ dataObj[1][1] = last.list[1].href
  /\ videoData[dataObj[1][1]] = last.list[1]
  /\ last.list[1].title # hist.pageOneWord

====
